---- MODULE Spec2Model ----
(***************************************************************************)
(* Model of apt_update_v2.py: one pass of the auto-update pipeline         *)
(* (fetch three repositories, log in to Zabbix, per category import        *)
(* templates / copy scripts / upload dashboards, optional virtualenv,      *)
(* Grafana plugins, Zabbix data source).  The program is sequential; the   *)
(* state is the position in main() together with the local filesystem and  *)
(* the two remote services.  Replies of the remote services and exit codes *)
(* of child processes are inputs, drawn at the step that makes the call.   *)
(***************************************************************************)
EXTENDS Integers, Sequences, FiniteSets, TLC

(* ------------------------------ bounds -------------------------------- *)

\* Longest category list of a configuration.
MaxCategories == 2

\* Longest plugin list file, in lines.
MaxPluginLines == 3

\* Number of consecutive invocations of the script (SpecRepeat only).
MaxRuns == 2

(* ------------------------- names and file names ----------------------- *)

\* Category names a configuration may list.
CategoryNames == {"network", "db"}

\* A file name is the sequence of its dot-separated components:
\* tpl1.xml is <<"tpl1", "xml">>, a name without a dot has one component.
\* The keys of CONFIG['git_repos'], in the order main fetches them.
RepoKeys == <<"zabbix_templates", "zabbix_scripts", "grafana_dashboards">>

\* Entries of a script directory that are directories, not regular files.
Subdirectories == {<<"lib">>}

\* str.lower() on the extensions that occur.
Lower(s) ==
    CASE s = "XML" -> "xml"
      [] s = "YML" -> "yml"
      [] s = "YAML" -> "yaml"
      [] s = "JSON" -> "json"
      [] OTHER -> s

\* name.split('.')[-1]
LastComponent(f) == f[Len(f)]

\* name.endswith('.' + e): the name has a dot and e follows the last one.
EndsWithDot(f, e) == Len(f) >= 2 /\ LastComponent(f) = e

\* The suffix tuple of main's template filter, f.lower().endswith((...)).
TemplateSuffixes == {"xml", "json", "yaml", "yml"}

\* format_map of import_zabbix_template: its keys and the format of each.
FormatKeys == {"xml", "json", "yaml", "yml"}

format_map(ext) == IF ext = "yml" THEN "yaml" ELSE ext

\* A faulty variant of main's filter: the name is not lower-cased.
IsTemplateName_case_sensitive(f) ==
    Len(f) >= 2 /\ LastComponent(f) \in TemplateSuffixes

\* main's filter on a listed template file name.
IsTemplateName(f) == Len(f) >= 2 /\ Lower(LastComponent(f)) \in TemplateSuffixes

\* import_zabbix_template's own check, ext = path.split('.')[-1].lower().
ExtSupported(f) == Lower(LastComponent(f)) \in FormatKeys

\* A faulty variant: every entry of the listing is submitted.
SubmitsImport_unfiltered(f) == Len(f) >= 1

\* The files of a listing for which a configuration.import request goes out:
\* main passes the file on, and the importer does not return early.
SubmitsImport(f) == IsTemplateName(f) /\ ExtSupported(f)

\* main's dashboard filter, f.endswith(".json"), case sensitive.
IsDashboardName(f) == EndsWithDot(f, "json")

\* copy_external_script: dst_path.endswith((".sh", ".py")).
IsExecutableName(f) == EndsWithDot(f, "sh") \/ EndsWithDot(f, "py")

\* Dashboard files whose content json.load rejects.
InvalidJson == {<<"broken", "json">>}

\* os.path.isfile on an entry of a script directory.
IsFile(f) == f \notin Subdirectories

(* ------------------------------ directories --------------------------- *)

NoDir == [exists |-> FALSE, files |-> {}]

Dir(S) == [exists |-> TRUE, files |-> S]

\* A subtree with something for each of the three importers.
FullTree ==
    [tpl |-> Dir({<<"tpl1", "xml">>, <<"notes", "txt">>}),
     scr |-> Dir({<<"check", "sh">>, <<"lib">>}),
     graf |-> Dir({<<"d1", "json">>, <<"readme", "md">>})]

\* The checkouts' subtree of one category name: its directory in the
\* template, script and dashboard repository.
Trees ==
    { [tpl |-> NoDir, scr |-> NoDir, graf |-> NoDir],
      FullTree,
      [tpl |-> Dir({<<"T2", "YML">>, <<"xml">>}),
       scr |-> NoDir,
       graf |-> Dir({<<"D2", "JSON">>, <<"broken", "json">>})],
      [tpl |-> NoDir,
       scr |-> Dir({<<"data", "csv">>}),
       graf |-> Dir({<<"d1", "json">>})] }

(* ------------------------------ plugin list --------------------------- *)

\* A line of the plugin list is its sequence of characters (the newline
\* left out); "a" and "b" stand for the characters of an identifier.
PluginLinePool ==
    { <<"a">>, <<"#", "a">>, <<" ", "b", " ">>, <<" ">>, <<" ", "#">> }

RECURSIVE LStrip(_)
LStrip(s) == IF s # <<>> /\ Head(s) = " " THEN LStrip(Tail(s)) ELSE s

RECURSIVE RStrip(_)
RStrip(s) ==
    IF s # <<>> /\ s[Len(s)] = " " THEN RStrip(SubSeq(s, 1, Len(s) - 1)) ELSE s

\* str.strip()
Strip(s) == LStrip(RStrip(s))

\* line.startswith("#")
StartsWithHash(s) == s # <<>> /\ Head(s) = "#"

\* A faulty variant of the condition: comment lines are not left out.
KeepsLine_with_comments(s) == Strip(s) # <<>>

\* The condition of the comprehension of install_grafana_plugins.
KeepsLine(s) == Strip(s) # <<>> /\ ~StartsWithHash(s)

RECURSIVE ReadPlugins(_)
\* plugins = [line.strip() for line in f if line.strip() and not line.startswith("#")]
ReadPlugins(lines) ==
    IF lines = <<>> THEN <<>>
    ELSE IF KeepsLine(Head(lines))
         THEN <<Strip(Head(lines))>> \o ReadPlugins(Tail(lines))
         ELSE ReadPlugins(Tail(lines))

BoundedSeq(S, n) == UNION { [1..k -> S] : k \in 0..n }

NoPluginFile == [exists |-> FALSE, lines |-> <<>>]

PluginFiles ==
    { NoPluginFile } \cup
    { [exists |-> TRUE, lines |-> l] : l \in BoundedSeq(PluginLinePool, MaxPluginLines) }

\* The plugin list of the scenario of the specification: pluginA, a comment.
SamplePluginFile == [exists |-> TRUE, lines |-> << <<"a">>, <<"#", "a">> >>]

(* ------------------------- the inputs enumerated ---------------------- *)

\* Each specification enumerates one part of the input space in full and
\* takes a sample of the rest (`scope`): "categories" all category lists
\* and subtrees, "plugins" all plugin lists, "repeat" consecutive runs.
CategoryListsOf(sc) ==
    IF sc = "categories"
    THEN BoundedSeq(CategoryNames, MaxCategories)
    ELSE { <<"network">> }

TreesOf(sc) == IF sc = "categories" THEN Trees ELSE { FullTree }

PluginFilesOf(sc) ==
    IF sc = "plugins" THEN PluginFiles ELSE { NoPluginFile, SamplePluginFile }

(* -------------------------------- state ------------------------------- *)

VARIABLES
    CATEGORIES,        \* the parsed category list of the configuration
    venv_required,     \* CONFIG.get("venv_required", False)
    logger,            \* the module global `logger`: "unbound" or "bound"
    repo,              \* category name -> its subtree in the three checkouts
    plugin_file,       \* grafana_plugins.txt of the dashboard checkout
    venv_dir_exists,   \* <externalscript_path>/venv exists
    requirements_exists, \* <externalscript_path>/requirements.txt exists
    externalscripts,   \* names of the files in externalscript_path
    executables,       \* those of them with the executable bit set
    graf_dashboards,   \* dashboards held by Grafana
    graf_datasources,  \* number of Zabbix-type data sources held by Grafana
    pc,                \* position in main()
    fetch_i,           \* which of the three clone_or_pull calls is next
    cat_i,             \* index of the category of the for loop
    pending,           \* the entries of the current listing not yet visited
    auth_token,        \* the value zabbix_login returned
    plugins,           \* the plugins not yet installed
    plugin_installed,  \* the flag of install_grafana_plugins
    ds_caller,         \* who called add_zabbix_datasource
    exit_code,         \* exit status of the process, -1 while it runs
    calls,             \* the external calls of this run, in order
    last_log,          \* the last record handed to the logger
    last_reply,        \* the outcome of the last external call
    login_response,    \* the shape of the reply to user.login of this run
    env_fault,         \* some external call of this run has failed
    upload_history,    \* <<run, dashboard>> of every upload Grafana accepted
    run,               \* number of the current invocation
    observed,          \* the parts of the environment the runs have looked at
    scope              \* the part of the input space enumerated in full

vars ==
    << CATEGORIES, venv_required, logger, repo, plugin_file, venv_dir_exists,
       requirements_exists, externalscripts, executables, graf_dashboards,
       graf_datasources, pc, fetch_i, cat_i, pending, auth_token, plugins,
       plugin_installed, ds_caller, exit_code, calls, last_log, last_reply,
       login_response, env_fault, upload_history, run, observed, scope >>

\* The configuration, fixed at module load.
conf == << CATEGORIES, venv_required, logger, scope, run >>

\* The local filesystem the run reads.
fs == << repo, plugin_file, requirements_exists, venv_dir_exists, observed >>

\* The external-script directory.
scripts == << externalscripts, executables >>

\* Grafana.
grafana == << graf_dashboards, graf_datasources, upload_history >>

\* The locals of main() and of the functions it calls.
locals == << fetch_i, cat_i, pending, auth_token, plugins, plugin_installed,
             ds_caller >>

Terminal == {"finished", "exited", "crashed"}

\* Tokens the Zabbix API may hand out.
Tokens == {"tokA", "tokB"}

NoFile == <<>>

\* One external call: an HTTP request, a child process or a git operation.
Call(op, cat, file, token, overwrite) ==
    [op |-> op,
     cat |-> cat,
     name |-> IF cat = 0 THEN "" ELSE CATEGORIES[cat],
     file |-> file,
     token |-> token,
     overwrite |-> overwrite,
     exit |-> -1]

\* The same call with the exit status or the HTTP status the program read
\* from it.
WithExit(call, e) == [call EXCEPT !.exit = e]

\* A log record; status is the HTTP status it reports, 0 when it reports none.
Log(level, event) == [level |-> level, event |-> event, status |-> 0]

LogStatus(level, event, status) == [level |-> level, event |-> event, status |-> status]

\* An unhandled exception: the traceback is printed and the status is 1.
Crash ==
    /\ pc' = "crashed"
    /\ exit_code' = 1

\* The process goes on.
Running == UNCHANGED exit_code

\* The outcome of a child process.
ExitReply(e) == IF e = 0 THEN "exit0" ELSE "exit1"

(* --------------------------------- Init ------------------------------- *)

\* The state when main() is entered.  Module load (lines 41-46) has read the
\* configuration; no statement of the module binds the global `logger`
\* (setup_logging is defined and never called), so the script entry point
\* enters main() with it unbound.  "bound" is main() called by a program
\* that imported the module and assigned the global first.
\* The checkouts, the plugin list, the script directory and Grafana's data
\* sources are fixed before the run but unknown to it: each is drawn from its
\* pool at the step that first looks at it (`observed`), and kept from then on.
InitOf(sc) ==
    /\ scope = sc
    /\ CATEGORIES \in CategoryListsOf(sc)
    /\ venv_required \in BOOLEAN
    /\ logger \in {"unbound", "bound"}
    /\ repo = [n \in CategoryNames |-> [tpl |-> NoDir, scr |-> NoDir, graf |-> NoDir]]
    /\ plugin_file = NoPluginFile
    /\ venv_dir_exists = FALSE
    /\ requirements_exists = FALSE
    /\ observed = {}
    /\ externalscripts = {}
    /\ executables = {}
    /\ graf_dashboards = {}
    /\ graf_datasources = 0
    /\ upload_history = {}
    /\ pc = "main"
    /\ fetch_i = 1
    /\ cat_i = 1
    /\ pending = {}
    /\ auth_token = ""
    /\ plugins = <<>>
    /\ plugin_installed = FALSE
    /\ ds_caller = ""
    /\ exit_code = -1
    /\ calls = <<>>
    /\ last_log = Log("", "")
    /\ last_reply = ""
    /\ login_response = ""
    /\ env_fault = FALSE
    /\ run = 1

Init == InitOf("categories")

InitPlugins == InitOf("plugins")

InitRepeat == InitOf("repeat")

(* ------------------------------- main() ------------------------------- *)

\* Lines 252-253: mkdtemp, then the first logger.info of main, a NameError
\* when the global is unbound.
EnterMain ==
    /\ pc = "main"
    /\ IF logger = "unbound"
       THEN /\ Crash
            /\ UNCHANGED last_log
       ELSE /\ pc' = "fetch"
            /\ last_log' = Log("info", "cloning")
            /\ Running
    /\ UNCHANGED << conf, fs, scripts, grafana, locals, calls, last_reply,
                    login_response, env_fault >>

\* clone_or_pull: pull when the local directory exists, clone otherwise.
clone_or_pull(exists) == IF exists THEN "pull" ELSE "clone"

\* A faulty variant: the exception of the git operation is swallowed and
\* main goes on with the next statement.
FetchRaised_ignored ==
    /\ IF fetch_i < Len(RepoKeys)
       THEN pc' = "fetch" /\ fetch_i' = fetch_i + 1
       ELSE pc' = "login" /\ UNCHANGED fetch_i
    /\ Running
    /\ env_fault' = TRUE
    /\ UNCHANGED last_log

\* Lines 137 and 139 raise (unreachable remote, authentication failure, merge
\* conflict) and neither clone_or_pull nor main handles the exception.
FetchRaised ==
    /\ Crash
    /\ env_fault' = TRUE
    /\ UNCHANGED << fetch_i, last_log >>

\* Lines 254-256: the three fetches, into a directory mkdtemp just made, so
\* that none of the three local directories exists.
Fetch ==
    /\ pc = "fetch"
    /\ \E ok \in BOOLEAN :
        /\ calls' = Append(calls, WithExit(Call(clone_or_pull(FALSE), 0, <<RepoKeys[fetch_i]>>, "", FALSE),
                                           IF ok THEN 0 ELSE 1))
        /\ last_reply' = IF ok THEN "ok" ELSE "raised"
        /\ IF ok
           THEN /\ IF fetch_i < Len(RepoKeys)
                   THEN pc' = "fetch" /\ fetch_i' = fetch_i + 1 /\ UNCHANGED last_log
                   ELSE pc' = "login" /\ UNCHANGED fetch_i
                        /\ last_log' = Log("info", "zabbix login")
                /\ Running
                /\ UNCHANGED env_fault
           ELSE FetchRaised
    /\ UNCHANGED << conf, fs, scripts, grafana, cat_i, pending, auth_token,
                    plugins, plugin_installed, ds_caller, login_response >>

\* The shapes of the reply to user.login: a JSON object with `result`, a
\* JSON object without it, a body that is no JSON, no reply at all.
LoginResponses == {"result", "no_result", "not_json", "no_reply"}

\* A faulty variant of lines 64-66: the failure is logged and the function
\* returns without a token.
LoginFailed_returns ==
    /\ pc' = "for_cat"
    /\ Running
    /\ last_log' = Log("error", "login failed")
    /\ auth_token' = ""

\* Lines 64-66 of zabbix_login: logger.error, then sys.exit(1).
LoginFailed ==
    /\ pc' = "exited"
    /\ exit_code' = 1
    /\ last_log' = Log("error", "login failed")
    /\ UNCHANGED auth_token

\* Lines 258-259 and zabbix_login.
ZabbixLogin ==
    /\ pc = "login"
    /\ \E resp \in LoginResponses, tok \in Tokens :
        /\ calls' = Append(calls, Call("user.login", 0, NoFile, "", FALSE))
        /\ login_response' = resp
        /\ last_reply' = resp
        /\ env_fault' = (env_fault \/ resp # "result")
        /\ CASE resp = "result" ->
                  /\ auth_token' = tok
                  /\ pc' = "for_cat"
                  /\ last_log' = Log("info", "login successful")
                  /\ Running
             [] resp = "no_result" -> LoginFailed
             [] OTHER ->
                  \* requests.post or res.json() raises
                  /\ Crash
                  /\ UNCHANGED << auth_token, last_log >>
    /\ UNCHANGED << conf, fs, scripts, grafana, fetch_i, cat_i, pending,
                    plugins, plugin_installed, ds_caller >>

\* A faulty variant of the loop body: the script block comes first.
StageOrder_scripts_first == << "scr", "tpl", "graf" >>

\* The three blocks of the body of the category loop, in statement order
\* (lines 267-271, 273-278, 280-284).
StageOrder == << "tpl", "scr", "graf" >>

StageIndex(st) == CHOOSE k \in 1..Len(StageOrder) : StageOrder[k] = st

\* The statement after the block of stage st: the next block, or the head
\* of the loop.
AfterStage(st) ==
    IF StageIndex(st) < Len(StageOrder)
    THEN StageOrder[StageIndex(st) + 1]
    ELSE "for_cat"

\* Control leaves the block of stage st.
LeaveStage(st) ==
    /\ pc' = AfterStage(st)
    /\ cat_i' = IF AfterStage(st) = "for_cat" THEN cat_i + 1 ELSE cat_i

\* Line 261: the head of `for cat in CATEGORIES`; the subtree of a category
\* name is drawn when the loop first comes to that name.
ForCategory ==
    /\ pc = "for_cat"
    /\ IF cat_i <= Len(CATEGORIES)
       THEN /\ pc' = StageOrder[1]
            /\ last_log' = Log("info", "processing category")
            /\ IF CATEGORIES[cat_i] \in observed
               THEN UNCHANGED << repo, observed >>
               ELSE /\ \E t \in TreesOf(scope) : repo' = [repo EXCEPT ![CATEGORIES[cat_i]] = t]
                    /\ observed' = observed \cup {CATEGORIES[cat_i]}
       ELSE /\ pc' = "venv_check"
            /\ UNCHANGED << last_log, repo, observed >>
    /\ UNCHANGED << conf, plugin_file, requirements_exists, venv_dir_exists,
                    scripts, grafana, locals, exit_code, calls, last_reply,
                    login_response, env_fault >>

(* ------------------------- template importer -------------------------- *)

\* Lines 263, 267-269: os.path.exists(subdir_tpl), os.listdir(subdir_tpl).
TemplatesEnter ==
    /\ pc = "tpl"
    /\ last_log' = Log("info", "importing templates")
    /\ IF repo[CATEGORIES[cat_i]].tpl.exists
       THEN /\ pc' = "tpl_loop"
            /\ pending' = repo[CATEGORIES[cat_i]].tpl.files
            /\ UNCHANGED cat_i
       ELSE /\ LeaveStage("tpl")
            /\ pending' = {}
    /\ UNCHANGED << conf, fs, scripts, grafana, fetch_i, auth_token, plugins,
                    plugin_installed, ds_caller, exit_code, calls, last_reply,
                    login_response, env_fault >>

\* The replies to configuration.import: a JSON object without `error`, one
\* with the API's error object, a body that is no JSON, no reply at all.
ImportResponses == {"ok", "error", "error_no_data", "not_json", "no_reply"}

\* Lines 107-108: the reply carries `error` with a `data` member; it is
\* logged and the function returns.
ImportRejected ==
    /\ last_log' = Log("error", "import failed")
    /\ UNCHANGED pc
    /\ Running

\* A faulty variant of line 101: the request carries no credential.
Bearer_none == ""

\* Line 101: the Authorization header carries main's auth_token.
Bearer == auth_token

\* Lines 269-271 and import_zabbix_template, for one entry of the listing
\* (os.listdir fixes no order).
TemplateFile ==
    /\ pc = "tpl_loop"
    /\ \E f \in pending :
        /\ pending' = pending \ {f}
        /\ IF SubmitsImport(f)
           THEN \E resp \in ImportResponses :
                  /\ calls' = Append(calls, Call("configuration.import", cat_i, f, Bearer, FALSE))
                  /\ last_reply' = resp
                  /\ env_fault' = (env_fault \/ resp # "ok")
                  /\ CASE resp = "ok" ->
                            /\ last_log' = Log("info", "imported")
                            /\ UNCHANGED pc
                            /\ Running
                       [] resp = "error" -> ImportRejected
                       [] resp = "error_no_data" ->
                            \* line 108: response_json['error']['data'] raises
                            \* KeyError, which `except ValueError` lets through
                            /\ Crash
                            /\ UNCHANGED last_log
                       [] resp = "not_json" ->
                            \* res.json() raises ValueError, caught at line 111
                            /\ last_log' = Log("error", "invalid response")
                            /\ UNCHANGED pc
                            /\ Running
                       [] OTHER ->
                            \* requests.post raises
                            /\ Crash
                            /\ UNCHANGED last_log
           ELSE /\ last_log' = IF IsTemplateName(f)
                                THEN Log("warning", "unsupported template format")
                                ELSE last_log
                /\ UNCHANGED << pc, exit_code, calls, last_reply, env_fault >>
    /\ UNCHANGED << conf, fs, scripts, grafana, fetch_i, cat_i, auth_token,
                    plugins, plugin_installed, ds_caller, login_response >>

\* The listing is exhausted.
TemplatesDone ==
    /\ pc = "tpl_loop"
    /\ pending = {}
    /\ LeaveStage("tpl")
    /\ UNCHANGED << conf, fs, scripts, grafana, fetch_i, pending, auth_token,
                    plugins, plugin_installed, ds_caller, exit_code, calls,
                    last_log, last_reply, login_response, env_fault >>

(* --------------------------- script installer ------------------------- *)

\* Lines 264, 273-275.
ScriptsEnter ==
    /\ pc = "scr"
    /\ last_log' = Log("info", "copying scripts")
    /\ IF repo[CATEGORIES[cat_i]].scr.exists
       THEN /\ pc' = "scr_loop"
            /\ pending' = repo[CATEGORIES[cat_i]].scr.files
            /\ UNCHANGED cat_i
       ELSE /\ LeaveStage("scr")
            /\ pending' = {}
    /\ UNCHANGED << conf, fs, scripts, grafana, fetch_i, auth_token, plugins,
                    plugin_installed, ds_caller, exit_code, calls, last_reply,
                    login_response, env_fault >>

\* Exit statuses of a child process: success and failure.
ExitCodes == {0, 1}

\* Lines 275-278 and copy_external_script for one entry: os.system("cp ..."),
\* whose status is dropped, then os.system("chmod +x ...") for a .sh or .py
\* destination.  chmod succeeds when the destination file is there.
ScriptFile ==
    /\ pc = "scr_loop"
    /\ \E f \in pending :
        /\ pending' = pending \ {f}
        /\ IF IsFile(f)
           THEN \E cp_exit \in ExitCodes :
                  /\ calls' = calls \o << Call("cp", cat_i, f, "", FALSE) >>
                                    \o (IF IsExecutableName(f)
                                        THEN << Call("chmod", cat_i, f, "", FALSE) >>
                                        ELSE << >>)
                  /\ last_reply' = ExitReply(cp_exit)
                  /\ externalscripts' = IF cp_exit = 0
                                        THEN externalscripts \cup {f}
                                        ELSE externalscripts
                  /\ executables' = IF IsExecutableName(f) /\ f \in externalscripts'
                                    THEN executables \cup {f}
                                    ELSE executables
                  /\ last_log' = IF IsExecutableName(f)
                                 THEN Log("info", "script copied and made executable")
                                 ELSE last_log
                  /\ env_fault' = (env_fault \/ cp_exit # 0)
           ELSE UNCHANGED << calls, last_reply, scripts, last_log, env_fault >>
    /\ UNCHANGED << conf, fs, grafana, pc, fetch_i, cat_i, auth_token, plugins,
                    plugin_installed, ds_caller, exit_code, login_response >>

\* The listing is exhausted.
ScriptsDone ==
    /\ pc = "scr_loop"
    /\ pending = {}
    /\ LeaveStage("scr")
    /\ UNCHANGED << conf, fs, scripts, grafana, fetch_i, pending, auth_token,
                    plugins, plugin_installed, ds_caller, exit_code, calls,
                    last_log, last_reply, login_response, env_fault >>

(* -------------------------- dashboard uploader ------------------------ *)

\* Lines 265, 280-282.
DashboardsEnter ==
    /\ pc = "graf"
    /\ last_log' = Log("info", "uploading dashboards")
    /\ IF repo[CATEGORIES[cat_i]].graf.exists
       THEN /\ pc' = "graf_loop"
            /\ pending' = repo[CATEGORIES[cat_i]].graf.files
            /\ UNCHANGED cat_i
       ELSE /\ LeaveStage("graf")
            /\ pending' = {}
    /\ UNCHANGED << conf, fs, scripts, grafana, fetch_i, auth_token, plugins,
                    plugin_installed, ds_caller, exit_code, calls, last_reply,
                    login_response, env_fault >>

\* A faulty variant of line 126: the payload does not ask to overwrite.
OverwriteFlag_unset == FALSE

\* Line 126: the "overwrite" member of the payload.
OverwriteFlag == TRUE

\* What Grafana does with POST /api/dashboards/db: it serves the request, it
\* answers with a failure of its own, or the request gets no reply.
UploadResponses == {"served", "refused", "no_reply"}

\* The status of a served save: a dashboard that exists is replaced when
\* overwrite is set and is a precondition failure when it is not.
SaveStatus(dash, overwrite) ==
    IF dash \in graf_dashboards /\ ~overwrite THEN 412 ELSE 200

\* The status of a reply.
UploadStatus(resp, dash, overwrite) ==
    IF resp = "served" THEN SaveStatus(dash, overwrite) ELSE 500

\* The dashboard a file of a category defines.
Dashboard(cat, f) == << CATEGORIES[cat], f >>

\* A faulty variant of line 132: a status other than 200 is logged and
\* raised, as res.raise_for_status() would.
UploadAnswered_raises(status) ==
    /\ last_log' = LogStatus("info", "upload", status)
    /\ IF status = 200
       THEN UNCHANGED pc /\ Running
       ELSE Crash

\* Line 132: the status is logged, whatever it is, and the function returns.
UploadAnswered(status) ==
    /\ last_log' = LogStatus("info", "upload", status)
    /\ UNCHANGED pc
    /\ Running

\* Lines 282-284 and upload_grafana_dashboard for one entry.
DashboardFile ==
    /\ pc = "graf_loop"
    /\ \E f \in pending :
        /\ pending' = pending \ {f}
        /\ IF ~IsDashboardName(f)
           THEN UNCHANGED << pc, exit_code, calls, last_reply, grafana, last_log, env_fault >>
           ELSE IF f \in InvalidJson
           THEN \* json.load raises
                /\ Crash
                /\ env_fault' = TRUE
                /\ UNCHANGED << calls, last_reply, grafana, last_log >>
           ELSE \E resp \in UploadResponses :
                  /\ calls' = Append(calls, Call("upload", cat_i, f, "", OverwriteFlag))
                  /\ last_reply' = resp
                  /\ UNCHANGED graf_datasources
                  /\ IF resp = "no_reply"
                     THEN /\ Crash
                          /\ env_fault' = TRUE
                          /\ UNCHANGED << graf_dashboards, upload_history, last_log >>
                     ELSE /\ UploadAnswered(UploadStatus(resp, Dashboard(cat_i, f), OverwriteFlag))
                          /\ env_fault' =
                               (env_fault \/ UploadStatus(resp, Dashboard(cat_i, f), OverwriteFlag) # 200)
                          /\ IF UploadStatus(resp, Dashboard(cat_i, f), OverwriteFlag) = 200
                             THEN /\ graf_dashboards' = graf_dashboards \cup {Dashboard(cat_i, f)}
                                  /\ upload_history' =
                                       upload_history \cup {<< run, Dashboard(cat_i, f) >>}
                             ELSE UNCHANGED << graf_dashboards, upload_history >>
    /\ UNCHANGED << conf, fs, scripts, fetch_i, cat_i, auth_token, plugins,
                    plugin_installed, ds_caller, login_response >>

\* The listing is exhausted: the next category.
DashboardsDone ==
    /\ pc = "graf_loop"
    /\ pending = {}
    /\ LeaveStage("graf")
    /\ UNCHANGED << conf, fs, scripts, grafana, fetch_i, pending, auth_token,
                    plugins, plugin_installed, ds_caller, exit_code, calls,
                    last_log, last_reply, login_response, env_fault >>

(* ------------------------ environment provisioner --------------------- *)

\* Lines 286-287, and what setup_virtualenv finds in externalscript_path.
VenvCheck ==
    /\ pc = "venv_check"
    /\ IF venv_required
       THEN /\ pc' = "venv"
            /\ last_log' = Log("info", "setting up virtualenv")
            /\ IF "externalscript_path" \in observed
               THEN UNCHANGED << venv_dir_exists, requirements_exists, observed >>
               ELSE /\ venv_dir_exists' \in BOOLEAN
                    /\ requirements_exists' \in BOOLEAN
                    /\ observed' = observed \cup {"externalscript_path"}
       ELSE /\ pc' = "plugins"
            /\ UNCHANGED << last_log, venv_dir_exists, requirements_exists, observed >>
    /\ UNCHANGED << conf, repo, plugin_file, scripts, grafana, locals,
                    exit_code, calls, last_reply, login_response, env_fault >>

\* A faulty variant: subprocess.run without check=True, which goes on
\* whatever the exit status.
CheckedRun_unchecked(op, e, next) ==
    /\ calls' = Append(calls, WithExit(Call(op, 0, NoFile, "", FALSE), e))
    /\ last_reply' = ExitReply(e)
    /\ env_fault' = (env_fault \/ e # 0)
    /\ pc' = next
    /\ Running

\* A checked child process (subprocess.run(..., check=True)) that goes on to
\* position `next` when it exits 0 and raises CalledProcessError otherwise.
CheckedRun(op, e, next) ==
    /\ calls' = Append(calls, WithExit(Call(op, 0, NoFile, "", FALSE), e))
    /\ last_reply' = ExitReply(e)
    /\ env_fault' = (env_fault \/ e # 0)
    /\ IF e = 0
       THEN pc' = next /\ Running
       ELSE Crash

\* Lines 243-244: python3 -m venv, when the directory is absent.
VenvCreate ==
    /\ pc = "venv"
    /\ IF venv_dir_exists
       THEN /\ pc' = "pip_upgrade"
            /\ UNCHANGED << venv_dir_exists, exit_code, calls, last_reply, env_fault >>
       ELSE \E e \in ExitCodes :
              /\ CheckedRun("venv_create", e, "pip_upgrade")
              /\ venv_dir_exists' = (e = 0)
    /\ UNCHANGED << conf, repo, plugin_file, requirements_exists, observed,
                    scripts, grafana, locals, last_log, login_response >>

\* Lines 245-246: pip install --upgrade pip.
PipUpgrade ==
    /\ pc = "pip_upgrade"
    /\ \E e \in ExitCodes : CheckedRun("pip_upgrade", e, "pip_install")
    /\ UNCHANGED << conf, fs, scripts, grafana, locals, last_log, login_response >>

\* Lines 247-248: pip install -r requirements.txt, when the manifest exists.
PipInstall ==
    /\ pc = "pip_install"
    /\ IF requirements_exists
       THEN \E e \in ExitCodes : CheckedRun("pip_install", e, "plugins")
       ELSE /\ pc' = "plugins"
            /\ UNCHANGED << exit_code, calls, last_reply, env_fault >>
    /\ UNCHANGED << conf, fs, scripts, grafana, locals, last_log, login_response >>

(* --------------------- plugin / data source provisioner --------------- *)

\* Lines 291-292 and lines 144-152 of install_grafana_plugins.  Without
\* the file the function returns at once and main goes on to line 295.
PluginsEnter ==
    /\ pc = "plugins"
    /\ IF "plugin_file" \in observed
       THEN UNCHANGED << plugin_file, observed >>
       ELSE /\ plugin_file' \in PluginFilesOf(scope)
            /\ observed' = observed \cup {"plugin_file"}
    /\ IF plugin_file'.exists
       THEN /\ plugins' = ReadPlugins(plugin_file'.lines)
            /\ plugin_installed' = FALSE
            /\ pc' = "plugins_loop"
            /\ UNCHANGED << ds_caller, last_log >>
       ELSE /\ last_log' = Log("warning", "plugin file not found")
            /\ pc' = "ds_list"
            /\ ds_caller' = "main"
            /\ UNCHANGED << plugins, plugin_installed >>
    /\ UNCHANGED << conf, repo, requirements_exists, venv_dir_exists, scripts,
                    grafana, fetch_i, cat_i, pending, auth_token, exit_code,
                    calls, last_reply, login_response, env_fault >>

\* Lines 154-161: one grafana-cli plugins install.
PluginInstall ==
    /\ pc = "plugins_loop"
    /\ plugins # << >>
    /\ \E e \in ExitCodes :
        /\ calls' = Append(calls, WithExit(Call("plugin_install", 0, Head(plugins), "", FALSE), e))
        /\ last_reply' = ExitReply(e)
        /\ plugin_installed' = (plugin_installed \/ e = 0)
        /\ last_log' = IF e = 0
                       THEN Log("info", "plugin installed")
                       ELSE Log("warning", "plugin might already be installed or failed")
        /\ env_fault' = (env_fault \/ e # 0)
    /\ plugins' = Tail(plugins)
    /\ UNCHANGED << conf, fs, scripts, grafana, pc, fetch_i, cat_i, pending,
                    auth_token, ds_caller, exit_code, login_response >>

\* A faulty variant of line 163: the restart is unconditional.
RestartWanted_always == TRUE

\* Line 163: `if plugin_installed`.
RestartWanted == plugin_installed

\* Lines 163-170: the restart when something was installed, its status
\* dropped, then the call of add_zabbix_datasource inside the try.
PluginsRestart ==
    /\ pc = "plugins_loop"
    /\ plugins = << >>
    /\ IF RestartWanted
       THEN /\ calls' = Append(calls, Call("restart", 0, NoFile, "", FALSE))
            /\ last_log' = Log("info", "grafana restarted")
            /\ last_reply' = "dropped"
       ELSE UNCHANGED << calls, last_log, last_reply >>
    /\ pc' = "ds_list"
    /\ ds_caller' = "plugins"
    /\ UNCHANGED << conf, fs, scripts, grafana, fetch_i, cat_i, pending,
                    auth_token, plugins, plugin_installed, exit_code,
                    login_response, env_fault >>

\* add_zabbix_datasource returns: to line 172 and on to line 295 when
\* install_grafana_plugins called it, to line 297 when main did.
DsReturn(log) ==
    IF ds_caller = "plugins"
    THEN /\ pc' = "ds_list"
         /\ ds_caller' = "main"
         /\ last_log' = log
         /\ Running
    ELSE /\ pc' = "finished"
         /\ exit_code' = 0
         /\ last_log' = Log("info", "auto-update finished")
         /\ UNCHANGED ds_caller

\* add_zabbix_datasource raises: caught at line 171 when
\* install_grafana_plugins called it, unhandled when main did.
DsRaise ==
    IF ds_caller = "plugins"
    THEN /\ pc' = "ds_list"
         /\ ds_caller' = "main"
         /\ last_log' = Log("error", "failed to add data source")
         /\ Running
    ELSE /\ Crash
         /\ UNCHANGED << ds_caller, last_log >>

\* What Grafana does with a request on /api/datasources: status 200, another
\* status, no reply.
DatasourceResponses == {"ok", "refused", "no_reply"}

\* The status code of a reply, -1 when there is none.
DsStatus(resp) ==
    CASE resp = "ok" -> 200
      [] resp = "refused" -> 500
      [] OTHER -> -1

\* A faulty variant of line 185: the status of the listing is not looked at.
ListingOk_unchecked(resp) == TRUE

\* Line 185: the listing was answered with status 200.
ListingOk(resp) == DsStatus(resp) = 200

\* A faulty variant of lines 189-192: no entry is recognised.
ZabbixListed_never(n) == FALSE

\* Lines 189-192: the listing of a Grafana that holds n Zabbix-type data
\* sources has an entry of type alexanderzobnin-zabbix-datasource.
ZabbixListed(n) == n > 0

\* Lines 176-192: GET /api/datasources and the search for a Zabbix-type one.
DsList ==
    /\ pc = "ds_list"
    /\ IF "datasources" \in observed
       THEN UNCHANGED << graf_datasources, observed >>
       ELSE /\ graf_datasources' \in {0, 1}
            /\ observed' = observed \cup {"datasources"}
    /\ \E resp \in DatasourceResponses :
        /\ calls' = Append(calls, WithExit(Call("ds_list", 0, NoFile, "", FALSE),
                                           DsStatus(resp)))
        /\ last_reply' = resp
        /\ env_fault' = (env_fault \/ resp # "ok")
        /\ CASE resp = "no_reply" -> DsRaise
             [] resp # "no_reply" /\ ~ListingOk(resp) ->
                  DsReturn(Log("warning", "failed to list data sources"))
             [] resp # "no_reply" /\ ListingOk(resp) /\ ZabbixListed(graf_datasources') ->
                  DsReturn(Log("info", "data source already exists"))
             [] OTHER ->
                  /\ pc' = "ds_create"
                  /\ UNCHANGED << ds_caller, exit_code, last_log >>
    /\ UNCHANGED << conf, repo, plugin_file, requirements_exists,
                    venv_dir_exists, scripts, graf_dashboards, upload_history,
                    fetch_i, cat_i, pending, auth_token, plugins,
                    plugin_installed, login_response >>

\* Lines 194-218: POST /api/datasources.
DsCreate ==
    /\ pc = "ds_create"
    /\ \E resp \in DatasourceResponses :
        /\ calls' = Append(calls, WithExit(Call("ds_create", 0, NoFile, "", FALSE),
                                           DsStatus(resp)))
        /\ last_reply' = resp
        /\ env_fault' = (env_fault \/ resp # "ok")
        /\ graf_datasources' = IF resp = "ok" THEN graf_datasources + 1 ELSE graf_datasources
        /\ CASE resp = "ok" -> DsReturn(Log("info", "data source added"))
             [] resp = "refused" -> DsReturn(Log("warning", "failed to add data source"))
             [] OTHER -> DsRaise
    /\ UNCHANGED << conf, fs, scripts, graf_dashboards, upload_history, fetch_i,
                    cat_i, pending, auth_token, plugins, plugin_installed,
                    login_response >>

(* ------------------------------ the program --------------------------- *)

Next ==
    \/ EnterMain
    \/ Fetch
    \/ ZabbixLogin
    \/ ForCategory
    \/ TemplatesEnter
    \/ TemplateFile
    \/ TemplatesDone
    \/ ScriptsEnter
    \/ ScriptFile
    \/ ScriptsDone
    \/ DashboardsEnter
    \/ DashboardFile
    \/ DashboardsDone
    \/ VenvCheck
    \/ VenvCreate
    \/ PipUpgrade
    \/ PipInstall
    \/ PluginsEnter
    \/ PluginInstall
    \/ PluginsRestart
    \/ DsList
    \/ DsCreate

\* One invocation of the script, every category list and subtree.
Spec == Init /\ [][Next]_vars

\* One invocation, every plugin list.
SpecPlugins == InitPlugins /\ [][Next]_vars

\* The script is invoked again after the previous invocation has ended:
\* a new process, a new temporary directory, the same machine and services.
NextRun ==
    /\ pc \in Terminal
    /\ run < MaxRuns
    /\ run' = run + 1
    /\ pc' = "main"
    /\ fetch_i' = 1
    /\ cat_i' = 1
    /\ pending' = {}
    /\ auth_token' = ""
    /\ plugins' = << >>
    /\ plugin_installed' = FALSE
    /\ ds_caller' = ""
    /\ exit_code' = -1
    /\ calls' = << >>
    /\ last_log' = Log("", "")
    /\ last_reply' = ""
    /\ login_response' = ""
    /\ env_fault' = FALSE
    /\ UNCHANGED << CATEGORIES, venv_required, logger, scope, fs, scripts, grafana >>

NextRepeat == Next \/ NextRun

\* Consecutive invocations over unchanged repositories.
SpecRepeat == InitRepeat /\ [][NextRepeat]_vars

(* ------------------------------ properties ---------------------------- *)

\* The positions in `calls` of the calls of the given kinds.
CallsOf(ops) == { i \in 1..Len(calls) : calls[i].op \in ops }

FetchOps == {"clone", "pull"}

ImporterOps == {"configuration.import", "cp", "chmod", "upload"}

VenvOps == {"venv_create", "pip_upgrade", "pip_install"}

PluginStageOps == {"plugin_install", "restart", "ds_list", "ds_create"}

\* C1: when the reply to user.login is a JSON object without `result`, the
\* process has ended with exit status 1, nothing more can happen in the run,
\* and the run has made no configuration.import request, no script copy and
\* no dashboard upload.
C1_LoginWithoutResultExits ==
    login_response = "no_result" =>
        /\ pc = "exited"
        /\ exit_code = 1
        /\ ~ENABLED Next
        /\ CallsOf(ImporterOps) = {}

\* A run whose three fetches succeeded and whose login was answered without
\* `result`.
C1_Witness ==
    /\ login_response = "no_result"
    /\ pc = "exited"
    /\ Len(calls) = Len(RepoKeys) + 1

\* C2: a run from the script entry point (the global `logger` as module load
\* leaves it) in which no external call has failed ends at the final
\* 'finished' step with exit code 0.
C2_ScriptRunFinishes ==
    (logger = "unbound" /\ pc \in Terminal /\ ~env_fault) =>
        (pc = "finished" /\ exit_code = 0)

\* The place of a category operation inside the body of the loop.
Rank(op) ==
    CASE op = "configuration.import" -> 1
      [] op \in {"cp", "chmod"} -> 2
      [] OTHER -> 3

\* The first position of a category name in the configuration list.
FirstIndex(name) ==
    CHOOSE k \in 1..Len(CATEGORIES) :
        /\ CATEGORIES[k] = name
        /\ \A j \in 1..(k - 1) : CATEGORIES[j] # name

\* C3 as stated, a category being its name: no operation of a category
\* listed later precedes an operation of a category listed earlier, and no
\* script copy or dashboard upload of a category precedes a template import
\* of the same category.
C3_OrderByName ==
    \A i, j \in CallsOf(ImporterOps) :
        i < j =>
            /\ FirstIndex(calls[i].name) <= FirstIndex(calls[j].name)
            /\ calls[i].name = calls[j].name => Rank(calls[i].op) <= Rank(calls[j].op)

\* C3, amended: a category being an entry (a position) of the configuration
\* list, no operation of a later entry precedes an operation of an earlier
\* entry, and within an entry the template imports precede the script
\* copies, which precede the dashboard uploads.
C3_OrderByPosition ==
    \A i, j \in CallsOf(ImporterOps) :
        i < j =>
            /\ calls[i].cat <= calls[j].cat
            /\ calls[i].cat = calls[j].cat => Rank(calls[i].op) <= Rank(calls[j].op)

\* Two entries have been processed, the first with an import, a copy and an
\* upload, the second with some operation.
C3_Witness ==
    /\ \E i, j, k \in CallsOf(ImporterOps) :
        /\ calls[i].cat = 1 /\ calls[i].op = "configuration.import"
        /\ calls[j].cat = 1 /\ calls[j].op = "cp"
        /\ calls[k].cat = 1 /\ calls[k].op = "upload"
    /\ \E i \in CallsOf(ImporterOps) : calls[i].cat = 2

\* The stage a call belongs to, in the order the claim gives the stages.
StageRank(op) ==
    CASE op \in FetchOps -> 1
      [] op = "user.login" -> 2
      [] op \in ImporterOps -> 3
      [] op \in PluginStageOps -> 4
      [] OTHER -> 5

\* C4: the calls of a run come in the order repository fetch, login,
\* category processing, plugin/datasource provisioner, environment
\* provisioner; no call of the environment provisioner precedes a call of
\* the plugin/datasource provisioner.
C4_StagesInOrder ==
    \A i, j \in 1..Len(calls) :
        i < j => StageRank(calls[i].op) <= StageRank(calls[j].op)

\* No name occurs twice in the sequence.
Distinct(seq) == \A i, j \in 1..Len(seq) : i # j => seq[i] # seq[j]

\* The extension of the file name is one of xml, json, yaml, yml, in either
\* case.
HasTemplateExtension(f) ==
    /\ Len(f) >= 2
    /\ f[Len(f)] \in {"xml", "json", "yaml", "yml", "XML", "JSON", "YAML", "YML"}

\* The calls of the given kinds made for the category name n.
CallsFor(ops, n) == { i \in CallsOf(ops) : calls[i].name = n }

\* The number of configuration.import requests made for file f of entry k.
ImportCount(k, f) ==
    Cardinality({ i \in CallsOf({"configuration.import"}) :
                    calls[i].cat = k /\ calls[i].file = f })

\* The kinds of call an importer block makes.
OpsOfStage(st) ==
    CASE st = "tpl" -> {"configuration.import"}
      [] st = "scr" -> {"cp", "chmod"}
      [] OTHER -> {"upload"}

\* The template block of entry k has been left.
TemplatesOver(k) ==
    \/ cat_i > k
    \/ cat_i = k /\ pc \in {"scr", "scr_loop", "graf", "graf_loop"}

\* What holds of the calls in every state of a run with distinct categories.
C5_Counts ==
    Distinct(CATEGORIES) =>
        \A k \in 1..Len(CATEGORIES) :
            /\ \A st \in {"tpl", "scr", "graf"} :
                 ~repo[CATEGORIES[k]][st].exists =>
                     CallsFor(OpsOfStage(st), CATEGORIES[k]) = {}
            /\ TemplatesOver(k) =>
                 \A f \in repo[CATEGORIES[k]].tpl.files :
                     ImportCount(k, f) = IF HasTemplateExtension(f) THEN 1 ELSE 0

\* A block whose subdirectory is absent is left without a call and without
\* ending the process.
C5_AbsentStep ==
    (/\ pc \in {"tpl", "scr", "graf"}
     /\ ~repo[CATEGORIES[cat_i]][pc].exists) =>
        /\ pc' \in {"tpl", "scr", "graf", "for_cat"}
        /\ calls' = calls
        /\ exit_code' = -1

\* C5: a category whose subdirectory is absent from a checkout gets no call
\* of the corresponding importer and the importer raises nothing; with
\* distinct configured categories, once the template block of an entry has
\* been left each template-format file of its template subdirectory has been
\* submitted in exactly one configuration.import request, every other file
\* in none.
C5_AbsentCategoriesAreNoOps == [][C5_Counts' /\ C5_AbsentStep]_vars

\* The scenario of the specification: network with tpl1.xml, db without a
\* template subdirectory, one import request in the finished run.
C5_Witness ==
    /\ CATEGORIES = <<"network", "db">>
    /\ <<"tpl1", "xml">> \in repo["network"].tpl.files
    /\ "db" \in observed
    /\ ~repo["db"].tpl.exists
    /\ pc = "finished"
    /\ ImportCount(1, <<"tpl1", "xml">>) = 1
    /\ Cardinality(CallsOf({"configuration.import"})) = 1

\* C6: no configuration.import request is ever sent for a file whose
\* extension is not one of xml, json, yaml, yml, and once the template block
\* of an entry has been left every file of the directory that has one of
\* these extensions has been submitted.
C6_UnsupportedFilesAreSkipped ==
    /\ \A i \in CallsOf({"configuration.import"}) : HasTemplateExtension(calls[i].file)
    /\ \A k \in 1..Len(CATEGORIES) :
         TemplatesOver(k) =>
             \A f \in repo[CATEGORIES[k]].tpl.files :
                 HasTemplateExtension(f) => ImportCount(k, f) >= 1

\* A template directory with notes.txt and tpl1.xml has been gone through:
\* tpl1.xml has been submitted, notes.txt has not.
C6_Witness ==
    \E k \in 1..Len(CATEGORIES) :
        /\ TemplatesOver(k)
        /\ {<<"notes", "txt">>, <<"tpl1", "xml">>} \subseteq repo[CATEGORIES[k]].tpl.files
        /\ ImportCount(k, <<"tpl1", "xml">>) = 1
        /\ ImportCount(k, <<"notes", "txt">>) = 0

\* The step is a request of the current block that was answered with `r`.
Answered(block, r) ==
    /\ pc = block
    /\ Len(calls') = Len(calls) + 1
    /\ last_reply' = r

\* The loop over the listing goes on with the entries that were left.
LoopGoesOn ==
    /\ pc' = pc
    /\ exit_code' = -1
    /\ cat_i' = cat_i
    /\ pending' \subseteq pending
    /\ Cardinality(pending') = Cardinality(pending) - 1

\* The replies whose JSON body has the member `error`.
CarriesError == {"error", "error_no_data"}

\* C7: when the reply to a configuration.import request carries `error`,
\* the failure is logged and the loop is not aborted: the process goes on in
\* the same loop with every remaining file still to be visited.
C7_ImportErrorDoesNotAbort ==
    [][(\E r \in CarriesError : Answered("tpl_loop", r)) =>
          (last_log' = Log("error", "import failed") /\ LoopGoesOn)]_vars

\* C8: when a dashboard upload is answered with a non-success status, the
\* status is logged and the loop is not aborted: the process goes on in the
\* same loop with every remaining file still to be visited.
C8_UploadFailureDoesNotAbort ==
    [][Answered("graf_loop", "refused") =>
          (last_log' = LogStatus("info", "upload", 500) /\ LoopGoesOn)]_vars

\* An upload has just been refused and a file of the listing remains.
C8_Witness ==
    /\ pc = "graf_loop"
    /\ last_reply = "refused"
    /\ last_log.status = 500
    /\ pending # {}

\* The upload requests of the current run for file f of entry k.
UploadsOf(k, f) ==
    { i \in CallsOf({"upload"}) : calls[i].cat = k /\ calls[i].file = f }

\* In every run each upload request carries overwrite = true, and once an
\* entry has been processed each dashboard file of its directory has been
\* sent in this run.
C9_Requests ==
    /\ \A i \in CallsOf({"upload"}) : calls[i].overwrite = TRUE
    /\ \A k \in 1..Len(CATEGORIES) :
         cat_i > k =>
             \A f \in repo[CATEGORIES[k]].graf.files :
                 (Len(f) >= 2 /\ f[Len(f)] = "json") => UploadsOf(k, f) # {}

\* The step is an upload, served by the remote, of a dashboard the remote
\* already holds.
ServedAgain ==
    /\ Answered("graf_loop", "served")
    /\ Dashboard(cat_i, calls'[Len(calls')].file) \in graf_dashboards

\* C9: over consecutive runs on unchanged dashboard files an upload request
\* is sent for the file in every run, each with overwrite = true, and an
\* upload of a dashboard the remote already holds is answered with success
\* and leaves the remote's set of dashboards as it was.
C9_RepeatedUploadIsIdempotent ==
    [][/\ C9_Requests'
       /\ ServedAgain => (/\ last_log' = LogStatus("info", "upload", 200)
                          /\ graf_dashboards' = graf_dashboards
                          /\ LoopGoesOn)]_vars

\* The second run has uploaded a dashboard the first run had uploaded, and
\* the remote holds that dashboard alone.
C9_Witness ==
    /\ run = 2
    /\ \E d \in graf_dashboards :
         /\ << 1, d >> \in upload_history
         /\ << 2, d >> \in upload_history
         /\ graf_dashboards = {d}
    /\ \E i \in CallsOf({"upload"}) : calls[i].overwrite = TRUE
    /\ last_log = LogStatus("info", "upload", 200)

\* A line of blanks only.
IsBlankLine(s) == \A i \in 1..Len(s) : s[i] = " "

\* A line whose first character is `#`.
IsCommentLine(s) == Len(s) >= 1 /\ s[1] = "#"

\* The identifiers of the lines that are neither blank nor comments, in the
\* order of the file, without the surrounding blanks.
RECURSIVE IdentifierLines(_)
IdentifierLines(lines) ==
    IF lines = << >> THEN << >>
    ELSE IF IsBlankLine(Head(lines)) \/ IsCommentLine(Head(lines))
         THEN IdentifierLines(Tail(lines))
         ELSE << SelectSeq(Head(lines), LAMBDA c : c # " ") >>
                  \o IdentifierLines(Tail(lines))

\* The plugin identifiers of the install invocations made so far, in order.
Installs ==
    LET made == SelectSeq(calls, LAMBDA c : c.op = "plugin_install")
    IN  [i \in 1..Len(made) |-> made[i].file]

\* install_grafana_plugins has gone through its list.
PluginsOver == ds_caller # ""

\* The invocations made so far are the first identifiers of the file, and
\* all of them once the list has been gone through; without the file there
\* is none.
C10_Installs ==
    LET expected == IF plugin_file.exists
                    THEN IdentifierLines(plugin_file.lines)
                    ELSE << >>
    IN  /\ Len(Installs) <= Len(expected)
        /\ \A i \in 1..Len(Installs) : Installs[i] = expected[i]
        /\ PluginsOver => Installs = expected

\* The run goes on past a plugin list file that is absent.
C10_AbsentStep ==
    (pc = "plugins" /\ ~plugin_file'.exists) =>
        /\ pc' = "ds_list"
        /\ exit_code' = -1
        /\ calls' = calls

\* C10: with the plugin list file present, one install invocation is made
\* per identifier line, in file order, and none for a blank line or a line
\* that starts with `#`; with the file absent no install invocation is made
\* and the run continues.
C10_OneInstallPerIdentifier == [][C10_Installs' /\ C10_AbsentStep]_vars

\* A file with an identifier, a comment and an indented identifier has been
\* gone through: two invocations, in file order.
C10_Witness ==
    /\ plugin_file.exists
    /\ plugin_file.lines = << <<"a">>, <<"#", "a">>, <<" ", "b", " ">> >>
    /\ PluginsOver
    /\ Installs = << <<"a">>, <<"b">> >>

\* The positions in `calls` of the plugin-install invocations and of the
\* restart commands.
InstallCalls == CallsOf({"plugin_install"})

RestartCalls == CallsOf({"restart"})

\* Some install invocation made so far returned exit status 0.
SomeInstallSucceeded == \E i \in InstallCalls : calls[i].exit = 0

\* C11: the restart command is issued at most once, only after every
\* install invocation and only when one of them returned exit status 0; and
\* once install_grafana_plugins has gone through its list the command has
\* been issued exactly when some install invocation returned 0.
C11_RestartIffSomeInstallSucceeded ==
    /\ Cardinality(RestartCalls) <= 1
    /\ \A r \in RestartCalls :
         /\ SomeInstallSucceeded
         /\ \A i \in InstallCalls : i < r
         /\ plugins = << >>
    /\ PluginsOver => (RestartCalls # {} <=> SomeInstallSucceeded)

\* Two installs, the first failed and the second succeeded, then the restart.
C11_Witness ==
    /\ PluginsOver
    /\ Cardinality(InstallCalls) = 2
    /\ \E i, j \in InstallCalls :
         i < j /\ calls[i].exit = 1 /\ calls[j].exit = 0
    /\ Cardinality(RestartCalls) = 1

\* C12: once the plugin / data source provisioning stage has made a call,
\* the run is never ended by an unhandled exception: every failure of the
\* stage, an exception of the listing or creation request included, is
\* caught.
C12_ProvisioningNeverFatal ==
    CallsOf(PluginStageOps) # {} => pc # "crashed"

\* The requests on /api/datasources of the run.
DsCalls == CallsOf({"ds_list", "ds_create"})

\* C13 as stated: after a run that completed normally exactly one
\* Zabbix-type data source exists.
C13_ExactlyOneDataSource ==
    pc = "finished" => graf_datasources = 1

\* C13 as the code has it: after a run that completed normally at most one
\* Zabbix-type data source exists, and none only when Grafana answered a
\* listing or creation request of the run with a status other than 200.
C13_OneDataSourceUnlessRefused ==
    pc = "finished" =>
        /\ graf_datasources \in {0, 1}
        /\ graf_datasources = 0 => \E i \in DsCalls : calls[i].exit # 200

\* A run that started without a data source has created one and finished.
C13_Witness ==
    /\ pc = "finished"
    /\ graf_datasources = 1
    /\ \E i \in CallsOf({"ds_create"}) : calls[i].exit = 200

\* C14: in a run the data-source ensure step (the listing, and the creation
\* when nothing is listed) is executed at most once, and exactly once in a
\* run that has completed, with or without the plugin list file.
C14_EnsureStepOnce ==
    /\ Cardinality(CallsOf({"ds_list"})) <= 1
    /\ pc = "finished" => Cardinality(CallsOf({"ds_list"})) = 1

\* The creation requests of the run that Grafana answered with 200.
CreationsDone == { i \in CallsOf({"ds_create"}) : calls[i].exit = 200 }

\* Every creation request directly follows a listing answered with 200, at
\* most one creation request has succeeded, and Grafana holds at most one
\* Zabbix-type data source.
C15_Requests ==
    /\ \A i \in CallsOf({"ds_create"}) :
         /\ i > 1
         /\ calls[i - 1].op = "ds_list"
         /\ calls[i - 1].exit = 200
    /\ Cardinality(CreationsDone) <= 1
    /\ graf_datasources <= 1

\* The step sends a creation request.
SendsCreation ==
    /\ Len(calls') = Len(calls) + 1
    /\ calls'[Len(calls')].op = "ds_create"

\* C15: a creation request is sent only when the listing request just
\* before it was answered with 200 and listed no Zabbix-type data source; a
\* failed listing is followed by no creation request; at most one creation
\* request of a run succeeds and no second Zabbix-type data source is made.
C15_CreateOnlyWhenListedAbsent ==
    [][/\ C15_Requests'
       /\ SendsCreation => (/\ graf_datasources = 0
                            /\ last_reply = "ok"
                            /\ calls[Len(calls)].op = "ds_list")]_vars

\* The first ensure step created the data source and the second one, which
\* found it listed, sent no creation request.
C15_Witness ==
    /\ pc = "finished"
    /\ Cardinality(CallsOf({"ds_list"})) = 2
    /\ Cardinality(CallsOf({"ds_create"})) = 1
    /\ Cardinality(CreationsDone) = 1
    /\ calls[Len(calls)].op = "ds_list"
    /\ graf_datasources = 1

\* The step copies a script and the copy command exits non-zero.
CopyFails ==
    /\ pc = "scr_loop"
    /\ calls' # calls
    /\ last_reply' = "exit1"

\* C16: when the copy command of a script exits non-zero the run is ended
\* by an unhandled fault: the cp call is the last call of the run, with no
\* chmod for the file after it.
C16_CopyFailurePropagates ==
    [][CopyFails => (/\ pc' = "crashed"
                     /\ exit_code' = 1
                     /\ Len(calls') = Len(calls) + 1
                     /\ calls'[Len(calls')].op = "cp")]_vars

\* The place of a step of setup_virtualenv in the order of its steps.
VenvRank(op) ==
    CASE op = "venv_create" -> 1
      [] op = "pip_upgrade" -> 2
      [] OTHER -> 3

\* The run is past the environment provisioner.
VenvOver == pc \in {"plugins", "plugins_loop", "ds_list", "ds_create", "finished"}

\* The environment steps are made only with venv_required, each at most
\* once and in order; a step that exited non-zero is the last call of the
\* run, which an unhandled fault has ended; a run that went past the
\* provisioner with venv_required has upgraded the installer, and has
\* installed the manifest exactly when the manifest exists.
C17_Steps ==
    /\ CallsOf(VenvOps) # {} => venv_required
    /\ \A i, j \in CallsOf(VenvOps) :
         i < j => VenvRank(calls[i].op) < VenvRank(calls[j].op)
    /\ \A i \in CallsOf(VenvOps) :
         calls[i].exit # 0 => (i = Len(calls) /\ pc = "crashed" /\ exit_code = 1)
    /\ (VenvOver /\ venv_required) =>
         /\ venv_dir_exists
         /\ \E i \in CallsOf({"pip_upgrade"}) : calls[i].exit = 0
         /\ requirements_exists <=> CallsOf({"pip_install"}) # {}
    /\ (VenvOver /\ ~venv_required) => CallsOf(VenvOps) = {}

\* The step is a step of setup_virtualenv.
VenvStep == pc \in {"venv", "pip_upgrade", "pip_install"}

\* The step runs the child process `op`.
Runs(op) ==
    /\ Len(calls') = Len(calls) + 1
    /\ calls'[Len(calls')].op = op

\* C17: the environment provisioner runs exactly when venv_required is
\* true; its steps run in the order create (exactly when the environment
\* directory is absent), upgrade, install (exactly when the manifest
\* exists); a step that exits non-zero ends the run as an unhandled fault
\* with no later step, and what the earlier stages did is left in place.
C17_EnvironmentProvisioner ==
    [][/\ C17_Steps'
       /\ pc = "venv" => (Runs("venv_create") <=> ~venv_dir_exists)
       /\ pc = "pip_install" => (Runs("pip_install") <=> requirements_exists)
       /\ VenvStep => UNCHANGED << scripts, grafana >>
       /\ pc = "crashed" => UNCHANGED vars]_vars

\* The upgrade of the installer has failed after the environment was
\* created and a script was copied: the run has ended with status 1 and the
\* copied script is still there.
C17_Witness ==
    /\ pc = "crashed"
    /\ exit_code = 1
    /\ \E i \in CallsOf({"venv_create"}) : calls[i].exit = 0
    /\ calls[Len(calls)].op = "pip_upgrade"
    /\ calls[Len(calls)].exit = 1
    /\ externalscripts # {}

LoginCalls == CallsOf({"user.login"})

ImportCalls == CallsOf({"configuration.import"})

\* At most one user.login request is made in a run, and exactly one in a
\* run that completed; every configuration.import request follows a login
\* that returned a token and carries the token the run holds.
C18_Requests ==
    /\ Cardinality(LoginCalls) <= 1
    /\ pc = "finished" => Cardinality(LoginCalls) = 1
    /\ \A i \in ImportCalls :
         /\ \E l \in LoginCalls : l < i
         /\ login_response = "result"
         /\ auth_token \in Tokens
         /\ calls[i].token = auth_token

\* C18: one user.login request is made per run; every configuration.import
\* request is sent after that login succeeded and carries the token it
\* returned; the token the run holds changes only at the login, never after.
C18_OneLoginOneToken ==
    [][/\ C18_Requests'
       /\ auth_token' # auth_token =>
            (pc = "login" /\ Runs("user.login") /\ auth_token = "")]_vars

\* A run with one login and two import requests, both with its token.
C18_Witness ==
    /\ Cardinality(LoginCalls) = 1
    /\ Cardinality(ImportCalls) = 2
    /\ \A i \in ImportCalls : calls[i].token = "tokB"
    /\ auth_token = "tokB"
    /\ pc = "finished"

FetchCalls == CallsOf(FetchOps)

\* The place of a repository in the order templates, scripts, dashboards.
RepoIndex(key) == CHOOSE k \in 1..Len(RepoKeys) : RepoKeys[k] = key

\* C19: the repositories are fetched at most once each, in the order
\* templates, scripts, dashboards, and before every other call of the run;
\* a fetch that failed is the last call of the run, which has ended with an
\* unhandled fault: it is not retried, and no later fetch, no login and no
\* import, copy or upload follows; a login is made only after three
\* fetches that succeeded.
C19_FetchOnceInOrderFatal ==
    /\ \A i, j \in FetchCalls :
         i < j => RepoIndex(calls[i].file[1]) < RepoIndex(calls[j].file[1])
    /\ \A i \in FetchCalls : \A j \in (1..Len(calls)) \ FetchCalls : i < j
    /\ \A i \in FetchCalls :
         calls[i].exit # 0 =>
             /\ i = Len(calls)
             /\ pc = "crashed"
             /\ exit_code = 1
             /\ ~ENABLED Next
    /\ CallsOf({"user.login"}) # {} =>
         /\ Cardinality(FetchCalls) = Len(RepoKeys)
         /\ \A i \in FetchCalls : calls[i].exit = 0

\* The fetch of the script repository has failed after the fetch of the
\* template repository: two fetches and nothing else.
C19_Witness ==
    /\ Len(calls) = 2
    /\ calls[1].file = << "zabbix_templates" >>
    /\ calls[1].exit = 0
    /\ calls[2].file = << "zabbix_scripts" >>
    /\ calls[2].exit = 1
    /\ pc = "crashed"

====
